---- MODULE Spec2Model ----
(***************************************************************************)
(* A model of the table component of qt-tablewidget-cpp: the item model    *)
(* with its per-column permission flags (CustomTableModel), the grid       *)
(* operations and the CSV / JSON / HTML exports of TableWidget, and the    *)
(* load / write-back protocol of the cell-editor delegates, and the view:  *)
(* the filter proxy, the selection, the queued change notifications and    *)
(* the context menu.                                                       *)
(*                                                                         *)
(* Text is a sequence of one-character strings, so that a serializer is    *)
(* modelled by the characters it writes.  Rows and columns are numbered    *)
(* from 0 as in the source; sequences are indexed from 1.                  *)
(***************************************************************************)
EXTENDS Integers, Sequences, FiniteSets

VARIABLES
    tableModel,        \* the CustomTableModel: items, columnCount, hHeader
    headers,           \* TableWidget::headers
    fieldNames,        \* TableWidget::fieldNames
    verticalHeaders,   \* TableWidget::verticalHeaders
    editableColumns,   \* CustomTableModel::editableColumns
    disabledColumns,   \* CustomTableModel::disabledColumns
    last,              \* the last call: its name, its argument, its result
    appended,          \* history: the rows appended and not deleted since
                       \* the column count was last set
    cell,              \* the value of the cell a delegate edits
    editor,            \* the delegate's editor widget, or NoEditor
    filter,            \* the proxy model's filter: key column and pattern
    current,           \* the view's current index, kept by the grid row it
                       \* stays on as a persistent index does, or NoCurrent
    selected,          \* the selected rows, by grid row
    queue,             \* the dataChanged notifications posted and not yet
                       \* delivered to handleDataChanged, oldest first
    clipboard,         \* the text of the application clipboard
    contextMenuEnabled, \* TableWidget::contextMenuEnabled
    doubleClickHandler \* TableWidget::doubleClickHandler: NoHandler while
                       \* the std::function is empty, or the target it holds

vars == <<tableModel, headers, fieldNames, verticalHeaders, editableColumns,
          disabledColumns, last, appended, cell, editor, filter, current,
          selected, queue, clipboard, contextMenuEnabled,
          doubleClickHandler>>

tableVars == <<tableModel, headers, fieldNames, verticalHeaders, appended>>
flagVars == <<editableColumns, disabledColumns>>
delegateVars == <<cell, editor>>
viewVars == <<filter, current, selected, queue, clipboard, contextMenuEnabled>>
handlerVars == <<doubleClickHandler>>

-----------------------------------------------------------------------------
(* Bounds of the model. *)

\* appendRow and appendRows stop growing the grid at this many rows
MaxRows == 2

\* an editor is opened on a cell whose text has at most this many characters
MaxTextLen == 24

-----------------------------------------------------------------------------
(* Text. *)

NL == "\n"
DQ == "\""
COMMA == ","

Digits == <<"0", "1", "2", "3", "4", "5", "6", "7", "8", "9">>

IsDigit(ch) == \E i \in 1..10 : Digits[i] = ch

DigitValue(ch) == (CHOOSE i \in 1..10 : Digits[i] = ch) - 1

\* s.contains(ch)
Contains(s, ch) == \E i \in 1..Len(s) : s[i] = ch

\* QString::number(n), for the non-negative numbers the model meets
RECURSIVE NumberString(_)
NumberString(n) ==
    IF n < 10 THEN <<Digits[n + 1]>>
    ELSE NumberString(n \div 10) \o <<Digits[(n % 10) + 1]>>

\* the value of a string of decimal digits
RECURSIVE DigitsValue(_)
DigitsValue(s) ==
    IF s = <<>> THEN 0
    ELSE 10 * DigitsValue(SubSeq(s, 1, Len(s) - 1)) + DigitValue(s[Len(s)])

\* QString::toInt(): the number a string of decimal digits denotes, 0 for
\* any other text
ToInt(s) ==
    IF s # <<>> /\ \A i \in 1..Len(s) : IsDigit(s[i]) THEN DigitsValue(s) ELSE 0

-----------------------------------------------------------------------------
(* QVariant: the values a cell can hold. *)

QInvalid == [t |-> "invalid", s |-> <<>>, n |-> 0]
QString(s) == [t |-> "string", s |-> s, n |-> 0]
QInt(n) == [t |-> "int", s |-> <<>>, n |-> n]
QBool(b) == [t |-> "bool", s |-> <<>>, n |-> IF b THEN 1 ELSE 0]

\* QVariant::toString()
VariantToString(v) ==
    CASE v.t = "string" -> v.s
      [] v.t = "int" -> NumberString(v.n)
      [] v.t = "bool" -> IF v.n = 1 THEN <<"t", "r", "u", "e">>
                         ELSE <<"f", "a", "l", "s", "e">>
      [] OTHER -> <<>>

\* QJsonValue::fromVariant()
JsonNull == [j |-> "null", s |-> <<>>, n |-> 0]
FromVariant(v) ==
    CASE v.t = "string" -> [j |-> "string", s |-> v.s, n |-> 0]
      [] v.t = "int" -> [j |-> "number", s |-> <<>>, n |-> v.n]
      [] v.t = "bool" -> [j |-> "bool", s |-> <<>>, n |-> v.n]
      [] OTHER -> JsonNull

-----------------------------------------------------------------------------
(* QStandardItemModel, as CustomTableModel inherits it.  items is the      *)
(* sequence of rows, each a sequence of columnCount cell values; a cell    *)
(* with no item holds QInvalid.  hHeader holds the horizontal header        *)
(* items: the label, or QInvalid where no header item is set.               *)

RowCount(m) == Len(m.items)
ColumnCount(m) == m.columnCount

EmptyModel == [items |-> <<>>, columnCount |-> 0, hHeader |-> <<>>]

\* a sequence cut or padded with fill to length n
Resize(seq, n, fill) ==
    [i \in 1..n |-> IF i <= Len(seq) THEN seq[i] ELSE fill]

\* QStandardItemModel::clear()
Clear(m) == EmptyModel

\* QStandardItemModel::setRowCount(rows)
SetRowCount(m, rows) ==
    [m EXCEPT !.items = Resize(m.items, rows, [c \in 1..m.columnCount |-> QInvalid])]

\* QStandardItemModel::setColumnCount(columns)
SetColumnCount(m, columns) ==
    [items |-> [r \in 1..Len(m.items) |-> Resize(m.items[r], columns, QInvalid)],
     columnCount |-> columns,
     hHeader |-> Resize(m.hHeader, columns, QInvalid)]

\* QStandardItemModel::setItem(row, column, item): the model grows to hold
\* the item
SetItem(m, row, column, value) ==
    LET m1 == IF RowCount(m) <= row THEN SetRowCount(m, row + 1) ELSE m
        m2 == IF ColumnCount(m1) <= column THEN SetColumnCount(m1, column + 1) ELSE m1
    IN  [m2 EXCEPT !.items[row + 1][column + 1] = value]

\* QStandardItemModel::setHorizontalHeaderLabels(labels): the column count
\* is raised to the number of labels, never lowered
SetHorizontalHeaderLabels(m, labels) ==
    LET m1 == IF ColumnCount(m) < Len(labels) THEN SetColumnCount(m, Len(labels)) ELSE m
    IN  [m1 EXCEPT !.hHeader =
            [i \in 1..Len(m1.hHeader) |->
                IF i <= Len(labels) THEN QString(labels[i]) ELSE m1.hHeader[i]]]

\* QStandardItemModel::setVerticalHeaderLabels(labels): the row count is
\* raised to the number of labels, never lowered (no operation reads a
\* vertical label back, so the labels themselves are not kept)
SetVerticalHeaderLabels(m, labels) ==
    IF RowCount(m) < Len(labels) THEN SetRowCount(m, Len(labels)) ELSE m

\* QStandardItemModel::removeRow(row)
RemoveRow(m, row) ==
    [m EXCEPT !.items =
        [i \in 1..(Len(m.items) - 1) |-> IF i <= row THEN m.items[i] ELSE m.items[i + 1]]]

\* model()->index(row, column).isValid()
IndexValid(m, row, column) ==
    /\ 0 <= row /\ row < RowCount(m)
    /\ 0 <= column /\ column < ColumnCount(m)

\* model()->data(model()->index(row, column))
Data(m, row, column) ==
    IF IndexValid(m, row, column) THEN m.items[row + 1][column + 1] ELSE QInvalid

\* model()->headerData(col, Qt::Horizontal): the header item's label, and
\* the section number counted from 1 where no header item is set
HeaderData(m, col) ==
    IF col < 0 \/ col >= ColumnCount(m) THEN QInvalid
    ELSE IF m.hHeader[col + 1] = QInvalid THEN QInt(col + 1)
    ELSE m.hHeader[col + 1]

-----------------------------------------------------------------------------
(* CustomTableModel::flags. *)

\* the flags QStandardItemModel::flags gives a valid index: the flags of a
\* QStandardItem that was never re-flagged, which are also the flags of a
\* cell with no item
DefaultItemFlags ==
    {"ItemIsSelectable", "ItemIsEnabled", "ItemIsEditable", "ItemIsDragEnabled",
     "ItemIsDropEnabled"}

\* QList<int>::contains
ListContains(list, x) == \E i \in 1..Len(list) : list[i] = x

\* tableModel->index(row, column): an invalid index outside the grid
Index(m, row, column) ==
    IF IndexValid(m, row, column) THEN [valid |-> TRUE, row |-> row, column |-> column]
    ELSE [valid |-> FALSE, row |-> -1, column |-> -1]

\* a wrong flags: the disabled list is consulted before the editable list
flags_DisabledFirst(index) ==
    IF ~index.valid THEN {}
    ELSE IF ListContains(disabledColumns, index.column)
         THEN {"ItemIsSelectable", "ItemIsEnabled"}
    ELSE IF ListContains(editableColumns, index.column)
         THEN {"ItemIsSelectable", "ItemIsEditable", "ItemIsEnabled"}
    ELSE DefaultItemFlags

\* CustomTableModel::flags
flags(index) ==
    IF ~index.valid THEN {}
    ELSE IF ListContains(editableColumns, index.column)
         THEN {"ItemIsSelectable", "ItemIsEditable", "ItemIsEnabled"}
    ELSE IF ListContains(disabledColumns, index.column)
         THEN {"ItemIsSelectable", "ItemIsEnabled"}
    ELSE DefaultItemFlags

-----------------------------------------------------------------------------
(* The arguments the operations are called with. *)

T_a == <<"a">>
T_7 == <<"7">>
T_comma == <<"b", COMMA, "c">>
T_nl == <<"x", NL, "y">>
H_A == <<"A">>
F_f == <<"f">>
F_g == <<"g">>

\* QStringList arguments of appendRow and appendRows
RowInputs == { <<T_a>>, <<T_7, T_comma>>, <<T_nl, T_a, T_7>> }

\* QVector<QStringList> arguments of setData: no rows, one row, and two
\* rows of which the second is longer than the first
DataInputs == { <<>>, << <<T_7, T_comma>> >>, << <<T_a>>, <<T_7, T_nl>> >> }

\* QVector<QStringList> arguments of appendRows
RowsInputs == { <<>>, << <<T_a>>, <<T_7, T_comma>> >> }

\* header label lists; the last repeats a label
HeaderInputs == { <<>>, <<H_A>>, <<H_A, H_A>> }

\* field-name lists
FieldInputs == { <<>>, <<F_f>>, <<F_f, F_g>> }

\* vertical header label lists
VerticalInputs == { <<>>, << <<"r">>, <<"s">> >> }

\* the valueConverter arguments of generateJsonData: nullptr, and the
\* application's valueConverter
Converters == { "nullptr", "valueConverter" }

-----------------------------------------------------------------------------
(* QSortFilterProxyModel, the model() of the view.  The proxy keeps the    *)
(* grid's row order and shows the rows its filter accepts; it refilters    *)
(* whenever the grid or the filter changes, so the rows it shows are a     *)
(* function of the grid and the filter.                                    *)

TAB == "\t"

\* the lower-case form of a character, for the letters the model uses
ToLower(ch) == IF ch = "A" THEN "a" ELSE IF ch = "B" THEN "b" ELSE ch

\* QRegularExpression(query, caseSensitivity), for a query that holds no
\* metacharacter
QRegularExpression(query, caseSensitivity) ==
    [pattern |-> query, caseInsensitive |-> (caseSensitivity = "CaseInsensitiveOption")]

\* QString::contains(regex): the pattern's characters occur in key, one
\* after the other
HasMatch(key, regex) ==
    LET k == IF regex.caseInsensitive THEN [i \in 1..Len(key) |-> ToLower(key[i])] ELSE key
        q == IF regex.caseInsensitive
             THEN [i \in 1..Len(regex.pattern) |-> ToLower(regex.pattern[i])]
             ELSE regex.pattern
    IN  \E i \in 0..(Len(k) - Len(q)) : SubSeq(k, i + 1, i + Len(q)) = q

\* the filter of a new proxy model, after setFilterKeyColumn(-1)
NoFilter == [keyColumn |-> -1, regex |-> QRegularExpression(<<>>, "NoPatternOption")]

\* QSortFilterProxyModel::filterAcceptsRow
filterAcceptsRow(m, f, source_row) ==
    IF f.regex.pattern = <<>> THEN TRUE
    ELSE IF f.keyColumn = -1
         THEN \E column \in 0..(ColumnCount(m) - 1) :
                  HasMatch(VariantToString(Data(m, source_row, column)), f.regex)
    ELSE IF f.keyColumn >= ColumnCount(m) THEN TRUE
    ELSE HasMatch(VariantToString(Data(m, source_row, f.keyColumn)), f.regex)

\* a wrong proxy: every accepted row is shown twice
ProxyRows_Twice(m, f) ==
    LET accepted == SelectSeq([i \in 1..RowCount(m) |-> i - 1],
                              LAMBDA r : filterAcceptsRow(m, f, r))
    IN  accepted \o accepted

\* the grid rows the proxy shows, in the order it shows them
ProxyRows(m, f) ==
    SelectSeq([i \in 1..RowCount(m) |-> i - 1], LAMBDA r : filterAcceptsRow(m, f, r))

\* QSortFilterProxyModel::mapToSource, on rows: -1 for a row the proxy
\* does not have
MapToSource(m, f, proxy_row) ==
    IF 0 <= proxy_row /\ proxy_row < Len(ProxyRows(m, f))
    THEN ProxyRows(m, f)[proxy_row + 1] ELSE -1

\* QSortFilterProxyModel::mapFromSource, on rows: -1 for a hidden row
MapFromSource(m, f, source_row) ==
    LET rows == ProxyRows(m, f)
    IN  IF \E i \in 1..Len(rows) : rows[i] = source_row
        THEN (CHOOSE i \in 1..Len(rows) : rows[i] = source_row) - 1
        ELSE -1

\* proxyModel->data(proxyModel->index(row, column))
ProxyData(m, f, row, column) == Data(m, MapToSource(m, f, row), column)

-----------------------------------------------------------------------------
(* TableWidget: the grid operations. *)

\* TableWidget::rowCount: the rows of model(), the proxy
rowCount == Len(ProxyRows(tableModel, filter))

\* TableWidget::columnCount: the proxy has the columns of the grid
columnCount == ColumnCount(tableModel)

\* a wrong value(i): the last item of the list outside the list
Value_LastItem(list, i) ==
    IF 0 <= i /\ i < Len(list) THEN list[i + 1]
    ELSE IF list = <<>> THEN <<>> ELSE list[Len(list)]

\* QStringList::value(i): the item, or an empty string outside the list
Value(list, i) == IF 0 <= i /\ i < Len(list) THEN list[i + 1] ELSE <<>>

\* a wrong resetHeaders: the horizontal labels are not set again
resetHeaders_VerticalOnly(m) ==
    IF verticalHeaders # <<>> THEN SetVerticalHeaderLabels(m, verticalHeaders) ELSE m

\* TableWidget::resetHeaders
resetHeaders(m) ==
    LET m1 == SetHorizontalHeaderLabels(m, headers)
    IN  IF verticalHeaders # <<>> THEN SetVerticalHeaderLabels(m1, verticalHeaders)
        ELSE m1

\* the inner loop of TableWidget::setData, from column on
RECURSIVE setDataColumns(_, _, _, _)
setDataColumns(m, row, rowDataList, column) ==
    IF column >= Len(rowDataList) THEN m
    ELSE setDataColumns(SetItem(m, row, column, QString(rowDataList[column + 1])),
                        row, rowDataList, column + 1)

\* the outer loop of TableWidget::setData, from row on
RECURSIVE setDataRows(_, _, _)
setDataRows(m, data, row) ==
    IF row >= Len(data) THEN m
    ELSE setDataRows(setDataColumns(m, row, data[row + 1], 0), data, row + 1)

\* a wrong setData: the row loop starts at the second row
setData_FromSecondRow(m, data) ==
    LET m1 == SetColumnCount(SetRowCount(Clear(m), Len(data)), 0)
        m2 == IF data # <<>> THEN SetColumnCount(m1, Len(data[1])) ELSE m1
    IN  setDataRows(resetHeaders(m2), data, 1)

\* TableWidget::setData
setData(m, data) ==
    LET m1 == SetColumnCount(SetRowCount(Clear(m), Len(data)), 0)
        m2 == IF data # <<>> THEN SetColumnCount(m1, Len(data[1])) ELSE m1
    IN  setDataRows(resetHeaders(m2), data, 0)

\* TableWidget::setRowData, from column on
RECURSIVE setRowData(_, _, _, _)
setRowData(m, row, rowData, column) ==
    IF column >= ColumnCount(m) THEN m
    ELSE setRowData(SetItem(m, row, column, QString(Value(rowData, column))),
                    row, rowData, column + 1)

\* TableWidget::appendRow
appendRow(m, rowData) ==
    LET row == RowCount(m)
    IN  setRowData(SetRowCount(m, row + 1), row, rowData, 0)

\* the loop of TableWidget::appendRows, from row on
RECURSIVE appendRowsFrom(_, _, _, _)
appendRowsFrom(m, rowsData, currentRowCount, row) ==
    IF row >= Len(rowsData) THEN m
    ELSE appendRowsFrom(setRowData(m, currentRowCount + row, rowsData[row + 1], 0),
                        rowsData, currentRowCount, row + 1)

\* TableWidget::appendRows
appendRows(m, rowsData) ==
    LET currentRowCount == RowCount(m)
        newRowCount == currentRowCount + Len(rowsData)
    IN  appendRowsFrom(SetRowCount(m, newRowCount), rowsData, currentRowCount, 0)

\* a wrong deleteRow: the last row is removed instead of the given one
deleteRow_LastRow(m, row) ==
    IF row >= 0 /\ row < RowCount(m) THEN RemoveRow(m, RowCount(m) - 1) ELSE m

\* a wrong deleteRow: the row count itself passes the range check
deleteRow_UpToCount(m, row) ==
    IF row >= 0 /\ row <= RowCount(m) THEN RemoveRow(m, row) ELSE m

\* TableWidget::deleteRow
deleteRow(m, row) ==
    IF row >= 0 /\ row < RowCount(m) THEN RemoveRow(m, row) ELSE m

\* a wrong clearTable: the rows are removed and the columns stay
clearTable_RowsOnly(m) == SetRowCount(m, 0)

\* TableWidget::clearTable
clearTable(m) == Clear(m)

\* TableWidget::getAllTableData
getAllTableData(m) ==
    [row \in 1..RowCount(m) |->
        [col \in 1..ColumnCount(m) |-> Data(m, row - 1, col - 1)]]

-----------------------------------------------------------------------------
(* TableWidget: the exports.  Each reads the grid through model(), the     *)
(* proxy model.                                                            *)

\* a wrong useFields: the column count is not compared
useFields_HeadersOnly == Len(headers) = Len(fieldNames)

\* a wrong useFields: field names are used whenever there are any
useFields_AnyFieldNames == fieldNames # <<>>

\* TableWidget::useFields
useFields ==
    (Len(headers) = Len(fieldNames)) /\ (Len(fieldNames) = columnCount)

\* what a read outside fieldNames yields
OutOfRange == <<"?">>

\* fieldNames[col]
FieldNameAt(col) ==
    IF 0 <= col /\ col < Len(fieldNames) THEN fieldNames[col + 1] ELSE OutOfRange

\* whether an export that takes the fieldNames branch reads outside the list
ReadsOutOfRange ==
    useFields /\ rowCount >= 0 /\ \E col \in 0..(columnCount - 1) : col >= Len(fieldNames)

\* model()->headerData(col, Qt::Horizontal).toString()
HeaderLabel(col) == VariantToString(HeaderData(tableModel, col))

\* model()->data(model()->index(row, col)).toString()
CellText(row, col) == VariantToString(ProxyData(tableModel, filter, row, col))

\* the header loop of generateCsvData, from col on
RECURSIVE CsvHeader(_)
CsvHeader(col) ==
    IF col >= columnCount THEN <<>>
    ELSE (IF col > 0 THEN <<COMMA>> ELSE <<>>)
         \o <<DQ>> \o FieldNameAt(col) \o <<DQ>> \o CsvHeader(col + 1)

\* the value generateCsvData writes for a cell: quoted if it holds a comma
CsvValue(value) ==
    IF Contains(value, COMMA) THEN <<DQ>> \o value \o <<DQ>> ELSE value

\* the column loop of generateCsvData for a row, from col on
RECURSIVE CsvRow(_, _)
CsvRow(row, col) ==
    IF col >= columnCount THEN <<>>
    ELSE (IF col > 0 THEN <<COMMA>> ELSE <<>>)
         \o CsvValue(CellText(row, col)) \o CsvRow(row, col + 1)

\* the row loop of generateCsvData, from row on
RECURSIVE CsvRows(_)
CsvRows(row) ==
    IF row >= rowCount THEN <<>>
    ELSE CsvRow(row, 0) \o <<NL>> \o CsvRows(row + 1)

\* TableWidget::generateCsvData
generateCsvData ==
    (IF useFields THEN CsvHeader(0) \o <<NL>> ELSE <<>>) \o CsvRows(0)

\* valueConverter of the application: column 0 becomes a number
valueConverter(col, value) ==
    IF col = 0 THEN QInt(ToInt(value)) ELSE QString(value)

\* rowObject[columnName] = value: the value replaces one already stored
\* under the same name
JsonInsert(rowObject, columnName, value) ==
    [k \in (DOMAIN rowObject) \cup {columnName} |->
        IF k = columnName THEN value ELSE rowObject[k]]

\* the name generateJsonData gives column col
JsonColumnName(useCustomFields, col) ==
    IF useCustomFields THEN FieldNameAt(col) ELSE HeaderLabel(col)

\* a wrong cell value: the converter is given the row for the column
JsonCellValue_RowForColumn(converter, row, col) ==
    LET cellValue == Data(tableModel, row, col)
    IN  FromVariant(IF converter = "valueConverter"
                    THEN valueConverter(row, VariantToString(cellValue))
                    ELSE cellValue)

\* the value generateJsonData stores for a cell
JsonCellValue(converter, row, col) ==
    LET cellValue == Data(tableModel, row, col)
    IN  FromVariant(IF converter = "valueConverter"
                    THEN valueConverter(col, VariantToString(cellValue))
                    ELSE cellValue)

\* the column loop of generateJsonData for a row, from col on
RECURSIVE JsonRow(_, _, _, _, _)
JsonRow(converter, useCustomFields, row, col, rowObject) ==
    IF col >= columnCount THEN rowObject
    ELSE JsonRow(converter, useCustomFields, row, col + 1,
                 JsonInsert(rowObject, JsonColumnName(useCustomFields, col),
                            JsonCellValue(converter, row, col)))

\* an empty QJsonObject
EmptyObject == [k \in {} |-> JsonNull]

\* TableWidget::generateJsonData: the array of row objects
generateJsonData(converter) ==
    LET useCustomFields == useFields
    IN  [r \in 1..rowCount |-> JsonRow(converter, useCustomFields, r - 1, 0, EmptyObject)]

\* the header loop of generateHtmlTable, from col on
RECURSIVE HtmlHeader(_)
HtmlHeader(col) ==
    IF col >= columnCount THEN <<>>
    ELSE <<"<th>">> \o HeaderLabel(col) \o <<"</th>">> \o HtmlHeader(col + 1)

\* the column loop of generateHtmlTable for a row, from col on
RECURSIVE HtmlRow(_, _)
HtmlRow(row, col) ==
    IF col >= columnCount THEN <<>>
    ELSE <<"<td>">> \o CellText(row, col) \o <<"</td>">> \o HtmlRow(row, col + 1)

\* the row loop of generateHtmlTable, from row on
RECURSIVE HtmlRows(_)
HtmlRows(row) ==
    IF row >= rowCount THEN <<>>
    ELSE <<"<tr>">> \o HtmlRow(row, 0) \o <<"</tr>">> \o HtmlRows(row + 1)

\* TableWidget::generateHtmlTable; each tag the source writes is one
\* element of the text, its style attributes left out
generateHtmlTable ==
    <<"<table>", "<thead><tr>">> \o HtmlHeader(0) \o <<"</tr></thead>", "<tbody>">>
    \o HtmlRows(0) \o <<"</tbody>", "</table>">>

-----------------------------------------------------------------------------
(* Dates and times, as the delegates parse and write them. *)

Pad2(n) == <<Digits[(n \div 10) + 1], Digits[(n % 10) + 1]>>
Pad4(n) == Pad2(n \div 100) \o Pad2(n % 100)
AllDigits(s) == \A i \in 1..Len(s) : IsDigit(s[i])

IsLeapYear(y) == (y % 4 = 0 /\ y % 100 # 0) \/ y % 400 = 0

DaysInMonth(y, m) ==
    IF m = 2 THEN (IF IsLeapYear(y) THEN 29 ELSE 28)
    ELSE IF m \in {4, 6, 9, 11} THEN 30 ELSE 31

\* QDate and QTime values; valid is isValid()
QDate(y, m, d) ==
    [valid |-> y >= 1 /\ m >= 1 /\ m <= 12 /\ d >= 1 /\ d <= DaysInMonth(y, m),
     y |-> y, m |-> m, d |-> d]
QTime(h, mi, sec, ms) ==
    [valid |-> h < 24 /\ mi < 60 /\ sec < 60, h |-> h, mi |-> mi, sec |-> sec, ms |-> ms]
NullDate == [valid |-> FALSE, y |-> 0, m |-> 0, d |-> 0]
NullTime == [valid |-> FALSE, h |-> 0, mi |-> 0, sec |-> 0, ms |-> 0]

\* QDate::fromString(text, "yyyy-MM-dd")
DateFromString(text) ==
    IF /\ Len(text) = 10 /\ text[5] = "-" /\ text[8] = "-"
       /\ AllDigits(SubSeq(text, 1, 4)) /\ AllDigits(SubSeq(text, 6, 7))
       /\ AllDigits(SubSeq(text, 9, 10))
    THEN QDate(DigitsValue(SubSeq(text, 1, 4)), DigitsValue(SubSeq(text, 6, 7)),
               DigitsValue(SubSeq(text, 9, 10)))
    ELSE NullDate

\* QTime::fromString(text, Qt::ISODate): HH:mm, HH:mm:ss or HH:mm:ss.zzz
TimeFromString(text) ==
    IF /\ Len(text) \in {5, 8, 12} /\ text[3] = ":"
       /\ AllDigits(SubSeq(text, 1, 2)) /\ AllDigits(SubSeq(text, 4, 5))
       /\ Len(text) >= 8 => (text[6] = ":" /\ AllDigits(SubSeq(text, 7, 8)))
       /\ Len(text) = 12 => (text[9] = "." /\ AllDigits(SubSeq(text, 10, 12)))
    THEN QTime(DigitsValue(SubSeq(text, 1, 2)), DigitsValue(SubSeq(text, 4, 5)),
               IF Len(text) >= 8 THEN DigitsValue(SubSeq(text, 7, 8)) ELSE 0,
               IF Len(text) = 12 THEN DigitsValue(SubSeq(text, 10, 12)) ELSE 0)
    ELSE NullTime

\* QDateTime values
QDateTime(date, time) == [valid |-> date.valid /\ time.valid, date |-> date, time |-> time]
NullDateTime == [valid |-> FALSE, date |-> NullDate, time |-> NullTime]

\* QDateTime::fromString(text, Qt::ISODate): a date, or a date, a T and a
\* time, with or without a closing Z (the machine's zone is taken to be
\* UTC, so that a time read as UTC is the same local time)
DateTimeFromString(text) ==
    LET body == IF text # <<>> /\ text[Len(text)] = "Z"
                THEN SubSeq(text, 1, Len(text) - 1) ELSE text
    IN  IF Len(body) = 10 THEN QDateTime(DateFromString(body), QTime(0, 0, 0, 0))
        ELSE IF Len(body) > 11 /\ body[11] = "T"
        THEN QDateTime(DateFromString(SubSeq(body, 1, 10)),
                       TimeFromString(SubSeq(body, 12, Len(body))))
        ELSE NullDateTime

\* QDateTime::fromString(text, "yyyy-MM-dd")
DateTimeFromDateString(text) == QDateTime(DateFromString(text), QTime(0, 0, 0, 0))

\* QDate::toString("yyyy-MM-dd")
DateToString(date) == Pad4(date.y) \o <<"-">> \o Pad2(date.m) \o <<"-">> \o Pad2(date.d)

\* QTime::toString(Qt::ISODate): the milliseconds are not written
TimeToString(time) ==
    Pad2(time.h) \o <<":">> \o Pad2(time.mi) \o <<":">> \o Pad2(time.sec)

\* QDateTime::toString(Qt::ISODate) of a local time
DateTimeToString(dt) == DateToString(dt.date) \o <<"T">> \o TimeToString(dt.time)

\* QVariant::toInt()
VariantToInt(v) ==
    CASE v.t = "string" -> ToInt(v.s)
      [] v.t = "int" -> v.n
      [] v.t = "bool" -> v.n
      [] OTHER -> 0

\* QVariant::toBool(): a string is false when empty, "0" or "false"
VariantToBool(v) ==
    CASE v.t = "string" -> ~(v.s \in {<<>>, <<"0">>, <<"f", "a", "l", "s", "e">>})
      [] v.t = "int" -> v.n # 0
      [] v.t = "bool" -> v.n = 1
      [] OTHER -> FALSE

-----------------------------------------------------------------------------
(* The delegates.  An editor is the widget a delegate creates for a cell:  *)
(* dateTime is the value of a QDateTimeEdit, QDateEdit or QTimeEdit,       *)
(* value the value of a QSpinBox, text the text of a text widget or the    *)
(* current text of a QComboBox, checked the state of a button.             *)

DelegateKinds ==
    {"DateTimeDelegate", "DateDelegate", "TimeDelegate", "SpinBoxDelegate",
     "TextEditDelegate", "TextBrowserDelegate", "LineEditDelegate",
     "ComboBoxDelegate", "RadioButtonDelegate", "CheckBoxDelegate"}

NoEditor ==
    [kind |-> "none", phase |-> "none", dateTime |-> NullDateTime, value |-> 0,
     text |-> <<>>, checked |-> FALSE]

\* a new QDateTimeEdit, QDateEdit or QTimeEdit shows 2000-01-01 00:00:00
NewDateTime == QDateTime(QDate(2000, 1, 1), QTime(0, 0, 0, 0))

\* a new editor widget of the delegate
NewEditor(kind) ==
    [kind |-> kind, phase |-> "created",
     dateTime |-> IF kind \in {"DateTimeDelegate", "DateDelegate", "TimeDelegate"}
                  THEN NewDateTime ELSE NullDateTime,
     value |-> 0, text |-> <<>>, checked |-> FALSE]

\* SpinBoxDelegate(parent, min = 0, max = 100)
SpinMin == 0
SpinMax == 100

\* DateDelegate(parent, defaultDate = QDate::currentDate()): the day the
\* application runs
DefaultDate == QDate(2023, 6, 7)

\* ComboBoxDelegate(this, QStringList{"Male", "Female"})
ComboItems == <<<<"M", "a", "l", "e">>, <<"F", "e", "m", "a", "l", "e">>>>

T_null == <<"n", "u", "l", "l">>

\* QDateTimeEdit::setDateTime: an invalid value is ignored
SetDateTime(e, dt) == IF dt.valid THEN [e EXCEPT !.dateTime = dt] ELSE e

\* QDateTimeEdit::setTime: an invalid time is ignored
SetTime(e, time) == IF time.valid THEN [e EXCEPT !.dateTime.time = time] ELSE e

\* QDateTimeEdit::setDate: an invalid date is ignored
SetDate(e, date) == IF date.valid THEN [e EXCEPT !.dateTime.date = date] ELSE e

\* QDateTimeEdit::clear(): the text of the current section is cleared, and
\* the editor's value stays
ClearEdit(e) == e

\* QSpinBox::setValue: the value is bound to the range
SetValue(e, n) ==
    [e EXCEPT !.value = IF n < SpinMin THEN SpinMin ELSE IF n > SpinMax THEN SpinMax ELSE n]

\* QComboBox::setCurrentText of a combo box that is not editable: the item
\* with this text becomes current if there is one
SetCurrentText(e, text) ==
    IF \E i \in 1..Len(ComboItems) : ComboItems[i] = text
    THEN [e EXCEPT !.text = text] ELSE e

\* QTextEdit::toHtml(): the document around the text
ToHtml(text) == <<"<html><body><p>">> \o text \o <<"</p></body></html>">>

\* setEditorData of each delegate
setEditorData(e, data) ==
    LET text == VariantToString(data)
        loaded ==
          CASE e.kind = "DateTimeDelegate" ->
                 IF text # <<>> THEN SetDateTime(e, DateTimeFromString(text))
                 ELSE ClearEdit(e)
            [] e.kind = "DateDelegate" -> SetDateTime(e, DateTimeFromDateString(text))
            [] e.kind = "TimeDelegate" ->
                 IF text # <<>> /\ text # T_null THEN SetTime(e, TimeFromString(text))
                 ELSE ClearEdit(e)
            [] e.kind = "SpinBoxDelegate" -> SetValue(e, VariantToInt(data))
            [] e.kind \in {"TextEditDelegate", "TextBrowserDelegate", "LineEditDelegate"} ->
                 [e EXCEPT !.text = text]
            [] e.kind = "ComboBoxDelegate" -> SetCurrentText(e, text)
            [] e.kind \in {"RadioButtonDelegate", "CheckBoxDelegate"} ->
                 [e EXCEPT !.checked = VariantToBool(data)]
    IN  [loaded EXCEPT !.phase = "loaded"]

\* createEditor of each delegate: the new widget, set up and given the
\* cell's value as setEditorData gives it
createEditor(kind, data) ==
    LET new == NewEditor(kind)
        made ==
          CASE kind = "DateDelegate" -> SetDate(new, DefaultDate)
            [] kind = "ComboBoxDelegate" ->
                 [new EXCEPT !.text = IF ComboItems = <<>> THEN <<>> ELSE ComboItems[1]]
            [] OTHER -> new
    IN  [setEditorData(made, data) EXCEPT !.phase = "created"]

\* setModelData of each delegate: the value written to the cell
setModelData(e) ==
    CASE e.kind = "DateTimeDelegate" -> QString(DateTimeToString(e.dateTime))
      [] e.kind = "DateDelegate" -> QString(DateToString(e.dateTime.date))
      [] e.kind = "TimeDelegate" -> QString(TimeToString(e.dateTime.time))
      [] e.kind = "SpinBoxDelegate" -> QInt(e.value)
      [] e.kind \in {"TextEditDelegate", "LineEditDelegate", "ComboBoxDelegate"} ->
           QString(e.text)
      [] e.kind = "TextBrowserDelegate" -> QString(ToHtml(e.text))
      [] e.kind \in {"RadioButtonDelegate", "CheckBoxDelegate"} -> QBool(e.checked)

\* the cell values the delegates are tried on
CellInputs ==
    { <<"1", "6", ":", "3", "0", ":", "3", "4">>,
      <<"n", "u", "l", "l">>,
      <<>>,
      <<"1", "9", "8", "9", "-", "0", "5", "-", "1", "8">>,
      <<"2", "0", "2", "3", "-", "0", "6", "-", "0", "7", "T", "0", "6", ":", "3", "0", ":", "1", "3">>,
      <<"2", "0", "2", "3", "-", "0", "6", "-", "0", "7", "T", "0", "6", ":", "3", "0", ":", "1", "3", ".", "0", "7", "5", "Z">>,
      <<"M", "a", "l", "e">>,
      <<"7">>,
      <<"1", "5", "0">>,
      <<"t", "r", "u", "e">> }

-----------------------------------------------------------------------------
(* The calls on a TableWidget. *)

Call(op, arg, ret) == [op |-> op, arg |-> arg, ret |-> ret]

\* an empty std::function: what doubleClickHandler is until a target is
\* moved into it
NoHandler == "empty"

\* an invalid current index
NoCurrent == [valid |-> FALSE, row |-> -1, column |-> -1]

Init ==
    /\ tableModel = EmptyModel
    /\ headers = <<>>
    /\ fieldNames = <<>>
    /\ verticalHeaders = <<>>
    /\ editableColumns = <<>>
    /\ disabledColumns = <<0, 1>>
    /\ last = Call("TableWidget", <<>>, <<>>)
    /\ appended = <<>>
    /\ cell = QInvalid
    /\ editor = NoEditor
    /\ filter = NoFilter
    /\ current = NoCurrent
    /\ selected = {}
    /\ queue = <<>>
    /\ clipboard = <<>>
    /\ contextMenuEnabled = TRUE
    /\ doubleClickHandler = NoHandler

SetHorizontalHeaders ==
    \E horizontalHeaders \in HeaderInputs, fieldNames_ \in FieldInputs :
        /\ headers' = horizontalHeaders
        /\ tableModel' = SetHorizontalHeaderLabels(tableModel, horizontalHeaders)
        /\ fieldNames' = fieldNames_
        /\ appended' = getAllTableData(tableModel')
        /\ last' = Call("setHorizontalHeaders", <<horizontalHeaders, fieldNames_>>, <<>>)
        /\ UNCHANGED <<verticalHeaders, flagVars, handlerVars, viewVars, delegateVars>>

SetFieldNames ==
    \E fieldNames_ \in FieldInputs :
        /\ fieldNames' = fieldNames_
        /\ last' = Call("setFieldNames", fieldNames_, <<>>)
        /\ UNCHANGED <<tableModel, headers, verticalHeaders, appended, flagVars, handlerVars, viewVars, delegateVars>>

SetVerticalHeaders ==
    \E hdrs \in VerticalInputs :
        /\ verticalHeaders' = hdrs
        /\ tableModel' = IF hdrs # <<>> THEN SetVerticalHeaderLabels(tableModel, hdrs)
                         ELSE tableModel
        /\ appended' = getAllTableData(tableModel')
        /\ last' = Call("setVerticalHeaders", hdrs, <<>>)
        /\ UNCHANGED <<headers, fieldNames, flagVars, handlerVars, viewVars, delegateVars>>

SetData ==
    \E data \in DataInputs :
        /\ tableModel' = setData(tableModel, data)
        /\ appended' = getAllTableData(tableModel')
        /\ last' = Call("setData", data, <<>>)
        /\ UNCHANGED <<headers, fieldNames, verticalHeaders, flagVars, handlerVars, viewVars, delegateVars>>

\* the row appendRow stores for rowData in a grid of columns columns
StoredRow(rowData, columns) == [c \in 1..columns |-> QString(Value(rowData, c - 1))]

AppendRow ==
    \E rowData \in RowInputs :
        /\ RowCount(tableModel) < MaxRows
        /\ tableModel' = appendRow(tableModel, rowData)
        /\ appended' = Append(appended, StoredRow(rowData, columnCount))
        /\ last' = Call("appendRow", rowData, <<>>)
        /\ UNCHANGED <<headers, fieldNames, verticalHeaders, flagVars, handlerVars, viewVars, delegateVars>>

AppendRows ==
    \E rowsData \in RowsInputs :
        /\ RowCount(tableModel) + Len(rowsData) <= MaxRows
        /\ tableModel' = appendRows(tableModel, rowsData)
        /\ appended' = appended \o [i \in 1..Len(rowsData) |->
                                        StoredRow(rowsData[i], columnCount)]
        /\ last' = Call("appendRows", rowsData, <<>>)
        /\ UNCHANGED <<headers, fieldNames, verticalHeaders, flagVars, handlerVars, viewVars, delegateVars>>

DeleteRow ==
    \E row \in -1..MaxRows :
        /\ tableModel' = deleteRow(tableModel, row)
        /\ appended' = IF row >= 0 /\ row < Len(appended)
                       THEN [i \in 1..(Len(appended) - 1) |->
                                IF i <= row THEN appended[i] ELSE appended[i + 1]]
                       ELSE appended
        /\ last' = Call("deleteRow", row, <<>>)
        /\ UNCHANGED <<headers, fieldNames, verticalHeaders, flagVars, handlerVars, viewVars, delegateVars>>

ClearTable ==
    /\ tableModel' = clearTable(tableModel)
    /\ appended' = getAllTableData(tableModel')
    /\ last' = Call("clearTable", <<>>, <<>>)
    /\ UNCHANGED <<headers, fieldNames, verticalHeaders, flagVars, handlerVars, viewVars, delegateVars>>

GetAllTableData ==
    /\ last' = Call("getAllTableData", <<>>, getAllTableData(tableModel))
    /\ UNCHANGED <<tableVars, flagVars, handlerVars, viewVars, delegateVars>>

GenerateCsvData ==
    /\ last' = Call("generateCsvData", ReadsOutOfRange, generateCsvData)
    /\ UNCHANGED <<tableVars, flagVars, handlerVars, viewVars, delegateVars>>

GenerateJsonData ==
    \E converter \in Converters :
        /\ last' = Call("generateJsonData", <<converter, ReadsOutOfRange>>,
                        generateJsonData(converter))
        /\ UNCHANGED <<tableVars, flagVars, handlerVars, viewVars, delegateVars>>

GenerateHtmlTable ==
    /\ last' = Call("generateHtmlTable", <<>>, generateHtmlTable)
    /\ UNCHANGED <<tableVars, flagVars, handlerVars, viewVars, delegateVars>>

Next ==
    \/ SetHorizontalHeaders
    \/ SetFieldNames
    \/ SetVerticalHeaders
    \/ SetData
    \/ AppendRow
    \/ AppendRows
    \/ DeleteRow
    \/ ClearTable
    \/ GetAllTableData
    \/ GenerateCsvData
    \/ GenerateJsonData
    \/ GenerateHtmlTable

Spec == Init /\ [][Next]_vars

-----------------------------------------------------------------------------
(* The permission flags of the cells: the model is built with any pair of  *)
(* column lists, filled with setData and asked for the flags of an index.  *)

ColumnLists == { <<>>, <<0>>, <<1>>, <<0, 1>> }

InitFlags ==
    /\ tableModel = EmptyModel
    /\ headers = <<>>
    /\ fieldNames = <<>>
    /\ verticalHeaders = <<>>
    /\ editableColumns \in ColumnLists
    /\ disabledColumns \in ColumnLists
    /\ last = Call("TableWidget", <<>>, <<>>)
    /\ appended = <<>>
    /\ cell = QInvalid
    /\ editor = NoEditor
    /\ filter = NoFilter
    /\ current = NoCurrent
    /\ selected = {}
    /\ queue = <<>>
    /\ clipboard = <<>>
    /\ contextMenuEnabled = TRUE
    /\ doubleClickHandler = NoHandler

Flags ==
    \E row \in -1..MaxRows, column \in -1..2 :
        /\ last' = Call("flags", Index(tableModel, row, column),
                        flags(Index(tableModel, row, column)))
        /\ UNCHANGED <<tableVars, flagVars, handlerVars, viewVars, delegateVars>>

NextFlags ==
    \/ SetData
    \/ Flags

SpecFlags == InitFlags /\ [][NextFlags]_vars

-----------------------------------------------------------------------------
(* The editing of one cell through a delegate: the view creates the        *)
(* editor, loads it from the cell, and on commit writes it back and closes *)
(* it.                                                                     *)

SetCell ==
    \E text \in CellInputs :
        /\ editor = NoEditor
        /\ cell' = QString(text)
        /\ last' = Call("setItem", text, <<>>)
        /\ UNCHANGED <<tableVars, flagVars, handlerVars, viewVars, editor>>

CreateEditor ==
    \E kind \in DelegateKinds :
        /\ editor = NoEditor
        /\ Len(VariantToString(cell)) <= MaxTextLen
        /\ editor' = createEditor(kind, cell)
        /\ last' = Call("createEditor", kind, <<>>)
        /\ UNCHANGED <<tableVars, flagVars, handlerVars, viewVars, cell>>

SetEditorData ==
    /\ editor.phase = "created"
    /\ editor' = setEditorData(editor, cell)
    /\ last' = Call("setEditorData", editor.kind, <<>>)
    /\ UNCHANGED <<tableVars, flagVars, handlerVars, viewVars, cell>>

SetModelData ==
    /\ editor.phase = "loaded"
    /\ cell' = setModelData(editor)
    /\ editor' = NoEditor
    /\ last' = Call("setModelData", <<editor.kind, cell>>, setModelData(editor))
    /\ UNCHANGED <<tableVars, flagVars, handlerVars, viewVars>>

NextDelegates ==
    \/ SetCell
    \/ CreateEditor
    \/ SetEditorData
    \/ SetModelData

SpecDelegates == Init /\ [][NextDelegates]_vars

-----------------------------------------------------------------------------
(* The view: selection, filtering, the queued change notifications and the *)
(* context menu.                                                           *)

\* the queue holds at most this many undelivered notifications
MaxQueue == 2

T_b == <<"b">>
T_A == <<"A">>

\* the arguments of setData, appendRow and appendRows on a table in a view
ViewDataInputs == { <<>>, << <<T_b, T_A>> >> }
ViewRowInputs == { <<T_a, T_b>> }
ViewRowsInputs == { << <<T_a, T_b>> >> }

\* the texts a user types into a cell
EditInputs == { T_b }

\* the arguments of filterTable
QueryInputs == { <<>>, T_a }
CaseOptions == { "CaseInsensitiveOption", "NoPatternOption" }
FilterColumns == { 0, 2 }

\* the texts other applications put on the clipboard
ClipboardInputs == { <<>>, <<"a", TAB, "b">> }

\* the choices of the context menu; none is a menu closed with no choice
MenuActions == { "Copy", "Paste", "Remove", "none" }

\* QStringList::join(sep)
RECURSIVE Join(_, _)
Join(list, sep) ==
    IF list = <<>> THEN <<>>
    ELSE IF Len(list) = 1 THEN list[1]
    ELSE list[1] \o <<sep>> \o Join(Tail(list), sep)

\* QString::split(sep), from character i on, cur being the item begun
RECURSIVE SplitFrom(_, _, _, _)
SplitFrom(text, sep, i, cur) ==
    IF i > Len(text) THEN <<cur>>
    ELSE IF text[i] = sep THEN <<cur>> \o SplitFrom(text, sep, i + 1, <<>>)
    ELSE SplitFrom(text, sep, i + 1, Append(cur, text[i]))

\* QString::split(sep)
Split(text, sep) == SplitFrom(text, sep, 1, <<>>)

\* the texts of the cells of row row of tableModel, in column order: what
\* the loops over tableModel->data(tableModel->index(row, col)).toString()
\* collect; an empty string for each column when the grid has no such row
RowData(m, row) ==
    [col \in 1..ColumnCount(m) |-> VariantToString(Data(m, row, col - 1))]

\* the texts of the items of row row of tableModel: what the loops over
\* tableModel->item(row, column) collect, which skip a cell with no item
ItemTexts(m, row) ==
    LET cells == [col \in 1..ColumnCount(m) |-> Data(m, row, col - 1)]
        items == SelectSeq(cells, LAMBDA v : v # QInvalid)
    IN  [i \in 1..Len(items) |-> VariantToString(items[i])]

\* currentIndex(): an index of model(), the proxy
currentIndex ==
    IF current.valid /\ MapFromSource(tableModel, filter, current.row) >= 0
    THEN [valid |-> TRUE, row |-> MapFromSource(tableModel, filter, current.row),
          column |-> current.column]
    ELSE NoCurrent

\* selectionModel()->selectedRows(): indexes of model(), the proxy, given
\* by their rows
selectedRows ==
    SelectSeq([i \in 1..rowCount |-> i - 1],
              LAMBDA p : MapToSource(tableModel, filter, p) \in selected)

\* TableWidget::getSelectedRows
getSelectedRows == [i \in 1..Len(selectedRows) |-> RowData(tableModel, selectedRows[i])]

\* TableWidget::getCurrentRow: no item, or the one item of the optional
getCurrentRow ==
    LET index == currentIndex
    IN  IF index.valid THEN << RowData(tableModel, index.row) >> ELSE <<>>

\* TableWidget::handleSelectionChanged, for the rows newly selected: the
\* signals it emits
handleSelectionChanged(selectedIndexes) ==
    IF selectedIndexes = <<>> THEN <<>>
    ELSE LET selectedRow == selectedIndexes[1].row
             selectedCol == selectedIndexes[1].column
         IN  << [signal |-> "tableSelectionChanged", row |-> selectedRow,
                 column |-> selectedCol, rowData |-> ItemTexts(tableModel, selectedRow)] >>

\* TableWidget::handleDataChanged: the signals it emits
handleDataChanged(topLeft, bottomRight) ==
    IF selected = {} THEN <<>>
    ELSE IF topLeft.row # bottomRight.row THEN <<>>
    ELSE << [signal |-> "rowUpdated", row |-> topLeft.row, column |-> topLeft.column,
             rowData |-> RowData(tableModel, topLeft.row)] >>

\* the dataChanged notification posted when cell (source_row, column) of m
\* has changed: the proxy passes the change on for a row it shows, with
\* its own row number.  src and cause are history: the grid row of the
\* change, and the operation that made it.
DataChanged(m, f, source_row, column, cause) ==
    IF MapFromSource(m, f, source_row) >= 0
    THEN << [topLeft |-> [row |-> MapFromSource(m, f, source_row), column |-> column],
             bottomRight |-> [row |-> MapFromSource(m, f, source_row), column |-> column],
             src |-> source_row, cause |-> cause] >>
    ELSE <<>>

\* the notifications of the setItem calls of setRowData, from column on
RECURSIVE setRowDataChanged(_, _, _, _, _, _)
setRowDataChanged(m, f, row, rowData, column, cause) ==
    IF column >= ColumnCount(m) THEN <<>>
    ELSE LET m1 == SetItem(m, row, column, QString(Value(rowData, column)))
         IN  DataChanged(m1, f, row, column, cause)
             \o setRowDataChanged(m1, f, row, rowData, column + 1, cause)

\* the notifications of appendRow
appendRowChanged(m, f, rowData, cause) ==
    LET row == RowCount(m)
    IN  setRowDataChanged(SetRowCount(m, row + 1), f, row, rowData, 0, cause)

\* the notifications of the loop of appendRows, from row on
RECURSIVE appendRowsChanged(_, _, _, _, _)
appendRowsChanged(m, f, rowsData, currentRowCount, row) ==
    IF row >= Len(rowsData) THEN <<>>
    ELSE setRowDataChanged(m, f, currentRowCount + row, rowsData[row + 1], 0, "appendRows")
         \o appendRowsChanged(setRowData(m, currentRowCount + row, rowsData[row + 1], 0),
                              f, rowsData, currentRowCount, row + 1)

\* the notifications of the setItem calls of the inner loop of setData
RECURSIVE setDataColumnsChanged(_, _, _, _, _)
setDataColumnsChanged(m, f, row, rowDataList, column) ==
    IF column >= Len(rowDataList) THEN <<>>
    ELSE LET m1 == SetItem(m, row, column, QString(rowDataList[column + 1]))
         IN  DataChanged(m1, f, row, column, "setData")
             \o setDataColumnsChanged(m1, f, row, rowDataList, column + 1)

\* the notifications of the outer loop of setData
RECURSIVE setDataRowsChanged(_, _, _, _)
setDataRowsChanged(m, f, data, row) ==
    IF row >= Len(data) THEN <<>>
    ELSE setDataColumnsChanged(m, f, row, data[row + 1], 0)
         \o setDataRowsChanged(setDataColumns(m, row, data[row + 1], 0), f, data, row + 1)

\* the notifications of setData
setDataChanged(m, f, data) ==
    LET m1 == SetColumnCount(SetRowCount(Clear(m), Len(data)), 0)
        m2 == IF data # <<>> THEN SetColumnCount(m1, Len(data[1])) ELSE m1
    IN  setDataRowsChanged(resetHeaders(m2), f, data, 0)

\* the queue after grid row row was removed (every row for row = -1, a
\* model reset): an undelivered notification keeps the row number it was
\* posted with; its history follows the grid row it was posted for
QueueAfterRemoval(q, row) ==
    [i \in 1..Len(q) |->
        [q[i] EXCEPT !.src = IF row = -1 \/ @ = row THEN -1
                             ELSE IF @ > row THEN @ - 1 ELSE @]]

\* the rows the proxy shows
Shown(m, f) == { ProxyRows(m, f)[i] : i \in 1..Len(ProxyRows(m, f)) }

\* the current index after a change of the rows shown, cur being the
\* current index before it in the new numbering of the grid rows (row -1
\* for a removed row): it stays on its row while the row is shown, and
\* when the row leaves the view the toolkit moves it to another row shown
\* or makes it invalid
CurrentChoices(cur, m, f) ==
    IF ~cur.valid THEN { NoCurrent }
    ELSE IF cur.row \in Shown(m, f) THEN { cur }
    ELSE { NoCurrent } \cup
         { [valid |-> TRUE, row |-> r, column |-> cur.column] : r \in Shown(m, f) }

\* the selection after the same change, sel being the selection before it
\* in the new numbering: rows that left the view are deselected, and a
\* current index the single-selection view moved is selected
SelectedAfter(cur, nc, sel, m, f) ==
    IF nc # cur /\ nc.valid THEN { nc.row } ELSE sel \cap Shown(m, f)

\* TableWidget::filterTable: the filter of the proxy afterwards
filterTable(f, query, caseSensitivity, column) ==
    IF query = <<>> THEN f
    ELSE [keyColumn |-> IF column >= -1 /\ column < columnCount THEN column
                        ELSE f.keyColumn,
          regex |-> QRegularExpression(query, caseSensitivity)]

\* TableWidget::setContextMenuEnabled
SetContextMenuEnabled ==
    \E enabled \in BOOLEAN :
        /\ contextMenuEnabled' = enabled
        /\ last' = Call("setContextMenuEnabled", <<>>, <<>>)
        /\ UNCHANGED <<tableVars, flagVars, handlerVars, delegateVars, filter, current, selected,
                       queue, clipboard>>

\* another application, or this one, sets the clipboard
SetClipboard ==
    \E text \in ClipboardInputs :
        /\ clipboard' = text
        /\ last' = Call("setClipboard", <<>>, <<>>)
        /\ UNCHANGED <<tableVars, flagVars, handlerVars, delegateVars, filter, current, selected,
                       queue, contextMenuEnabled>>

\* setData on a table in a view: clear() resets the proxy and with it the
\* current index and the selection
SetDataInView ==
    \E data \in ViewDataInputs :
        /\ Len(queue) + Len(setDataChanged(tableModel, filter, data)) <= MaxQueue
        /\ tableModel' = setData(tableModel, data)
        /\ appended' = getAllTableData(tableModel')
        /\ queue' = QueueAfterRemoval(queue, -1) \o setDataChanged(tableModel, filter, data)
        /\ current' = NoCurrent
        /\ selected' = {}
        /\ last' = Call("setData", data, <<>>)
        /\ UNCHANGED <<headers, fieldNames, verticalHeaders, flagVars, handlerVars, delegateVars,
                       filter, clipboard, contextMenuEnabled>>

\* appendRow on a table in a view
AppendRowInView ==
    \E rowData \in ViewRowInputs :
        /\ RowCount(tableModel) < MaxRows
        /\ Len(queue) + Len(appendRowChanged(tableModel, filter, rowData, "appendRow"))
               <= MaxQueue
        /\ tableModel' = appendRow(tableModel, rowData)
        /\ appended' = getAllTableData(tableModel')
        /\ queue' = queue \o appendRowChanged(tableModel, filter, rowData, "appendRow")
        /\ last' = Call("appendRow", rowData, <<>>)
        /\ UNCHANGED <<headers, fieldNames, verticalHeaders, flagVars, handlerVars, delegateVars,
                       filter, current, selected, clipboard, contextMenuEnabled>>

\* appendRows on a table in a view
AppendRowsInView ==
    \E rowsData \in ViewRowsInputs :
        LET changed == appendRowsChanged(SetRowCount(tableModel,
                                             RowCount(tableModel) + Len(rowsData)),
                                         filter, rowsData, RowCount(tableModel), 0)
        IN  /\ RowCount(tableModel) + Len(rowsData) <= MaxRows
            /\ Len(queue) + Len(changed) <= MaxQueue
            /\ tableModel' = appendRows(tableModel, rowsData)
            /\ appended' = getAllTableData(tableModel')
            /\ queue' = queue \o changed
            /\ last' = Call("appendRows", rowsData, <<>>)
            /\ UNCHANGED <<headers, fieldNames, verticalHeaders, flagVars, handlerVars, delegateVars,
                           filter, current, selected, clipboard, contextMenuEnabled>>

\* the current index and the selection in the numbering of the grid rows
\* after grid row row was removed
AfterRemoval(index, row) ==
    IF ~index.valid THEN index
    ELSE [index EXCEPT !.row = IF @ = row THEN -1 ELSE IF @ > row THEN @ - 1 ELSE @]

SelectedAfterRemoval(sel, row) ==
    { IF r > row THEN r - 1 ELSE r : r \in sel \ {row} }

\* deleteRow on a table in a view
DeleteRowInView ==
    \E row \in -1..MaxRows :
        LET removed == row >= 0 /\ row < RowCount(tableModel)
            cur == IF removed THEN AfterRemoval(current, row) ELSE current
            sel == IF removed THEN SelectedAfterRemoval(selected, row) ELSE selected
        IN  /\ tableModel' = deleteRow(tableModel, row)
            /\ appended' = getAllTableData(tableModel')
            /\ queue' = IF removed THEN QueueAfterRemoval(queue, row) ELSE queue
            /\ \E nc \in CurrentChoices(cur, tableModel', filter) :
                   /\ current' = nc
                   /\ selected' = SelectedAfter(cur, nc, sel, tableModel', filter)
            /\ last' = Call("deleteRow", <<>>, <<>>)
            /\ UNCHANGED <<headers, fieldNames, verticalHeaders, flagVars, handlerVars, delegateVars,
                           filter, clipboard, contextMenuEnabled>>

\* TableWidget::filterTable
FilterTable ==
    \E query \in QueryInputs, caseSensitivity \in CaseOptions, column \in FilterColumns :
        /\ filter' = filterTable(filter, query, caseSensitivity, column)
        /\ \E nc \in CurrentChoices(current, tableModel, filter') :
               /\ current' = nc
               /\ selected' = SelectedAfter(current, nc, selected, tableModel, filter')
        /\ last' = Call("filterTable", query, <<>>)
        /\ UNCHANGED <<tableVars, flagVars, handlerVars, delegateVars, queue, clipboard,
                       contextMenuEnabled>>

\* the user clicks the cell at row row and column column of the view: the
\* cell becomes current and its row the selection, and the view reports
\* the rows newly selected to handleSelectionChanged
SelectCell ==
    \E row \in 0..(MaxRows - 1), column \in 0..1 :
        LET source_row == MapToSource(tableModel, filter, row)
        IN  /\ IndexValid(tableModel, source_row, column)
            /\ "ItemIsSelectable" \in flags(Index(tableModel, source_row, column))
            /\ current' = [valid |-> TRUE, row |-> source_row, column |-> column]
            /\ selected' = { source_row }
            /\ last' = Call("select", [row |-> row, column |-> column],
                            handleSelectionChanged(
                                IF source_row \in selected THEN <<>>
                                ELSE << [row |-> row, column |-> 0] >>))
            /\ UNCHANGED <<tableVars, flagVars, handlerVars, delegateVars, filter, queue, clipboard,
                           contextMenuEnabled>>

\* QAbstractItemView::clearSelection
ClearSelection ==
    /\ selected # {}
    /\ selected' = {}
    /\ last' = Call("clearSelection", <<>>, handleSelectionChanged(<<>>))
    /\ UNCHANGED <<tableVars, flagVars, handlerVars, delegateVars, filter, current, queue, clipboard,
                   contextMenuEnabled>>

\* the user edits the cell at row row and column column of the view and
\* the delegate writes the text back with model->setData(index, text)
EditCell ==
    \E row \in 0..(MaxRows - 1), column \in 0..1, text \in EditInputs :
        LET source_row == MapToSource(tableModel, filter, row)
            changed == DataChanged(SetItem(tableModel, source_row, column, QString(text)),
                                   filter, source_row, column, "edit")
        IN  /\ IndexValid(tableModel, source_row, column)
            /\ "ItemIsEditable" \in flags(Index(tableModel, source_row, column))
            /\ Len(queue) + Len(changed) <= MaxQueue
            /\ tableModel' = SetItem(tableModel, source_row, column, QString(text))
            /\ appended' = getAllTableData(tableModel')
            /\ queue' = queue \o changed
            /\ \E nc \in CurrentChoices(current, tableModel', filter) :
                   /\ current' = nc
                   /\ selected' = SelectedAfter(current, nc, selected, tableModel', filter)
            /\ last' = Call("edit", <<>>, <<>>)
            /\ UNCHANGED <<headers, fieldNames, verticalHeaders, flagVars, handlerVars, delegateVars,
                           filter, clipboard, contextMenuEnabled>>

\* the event loop delivers the oldest queued notification to
\* handleDataChanged
DeliverDataChanged ==
    /\ queue # <<>>
    /\ queue' = Tail(queue)
    /\ last' = Call("handleDataChanged", Head(queue),
                    handleDataChanged(Head(queue).topLeft, Head(queue).bottomRight))
    /\ UNCHANGED <<tableVars, flagVars, handlerVars, delegateVars, filter, current, selected,
                   clipboard, contextMenuEnabled>>

GetCurrentRow ==
    /\ last' = Call("getCurrentRow", currentIndex, getCurrentRow)
    /\ UNCHANGED <<tableVars, flagVars, handlerVars, delegateVars, viewVars>>

GetSelectedRows ==
    /\ last' = Call("getSelectedRows", selectedRows, getSelectedRows)
    /\ UNCHANGED <<tableVars, flagVars, handlerVars, delegateVars, viewVars>>

\* TableWidget::contextMenuEvent, the user choosing selectedItem from the
\* menu
ContextMenuEvent ==
    \E selectedItem \in MenuActions :
        LET copies == contextMenuEnabled /\ selectedItem = "Copy" /\ getCurrentRow # <<>>
            items == Split(clipboard, TAB)
            pastes == /\ contextMenuEnabled /\ selectedItem = "Paste"
                      /\ clipboard # <<>> /\ Len(items) = columnCount
            index == currentIndex
            deletes == contextMenuEnabled /\ selectedItem = "Remove" /\ index.valid
            removed == deletes /\ index.row >= 0 /\ index.row < RowCount(tableModel)
            changed == IF pastes THEN appendRowChanged(tableModel, filter, items, "appendRow")
                       ELSE <<>>
            cur == IF removed THEN AfterRemoval(current, index.row) ELSE current
            sel == IF removed THEN SelectedAfterRemoval(selected, index.row) ELSE selected
        IN  /\ pastes => RowCount(tableModel) < MaxRows
            /\ Len(queue) + Len(changed) <= MaxQueue
            /\ clipboard' = IF copies THEN Join(getCurrentRow[1], TAB) ELSE clipboard
            /\ tableModel' = IF pastes THEN appendRow(tableModel, items)
                             ELSE IF deletes THEN deleteRow(tableModel, index.row)
                             ELSE tableModel
            /\ appended' = getAllTableData(tableModel')
            /\ queue' = (IF removed THEN QueueAfterRemoval(queue, index.row) ELSE queue)
                        \o changed
            /\ \E nc \in CurrentChoices(cur, tableModel', filter) :
                   /\ current' = nc
                   /\ selected' = SelectedAfter(cur, nc, sel, tableModel', filter)
            /\ last' = Call("contextMenuEvent",
                            [selectedItem |-> selectedItem, enabled |-> contextMenuEnabled,
                             index |-> index, clipboard |-> clipboard], <<>>)
            /\ UNCHANGED <<headers, fieldNames, verticalHeaders, flagVars, handlerVars, delegateVars,
                           filter, contextMenuEnabled>>

\* the handlers setDoubleClickHandler is given: an empty std::function or
\* a callable
HandlerInputs == { NoHandler, "handler" }

\* TableWidget::setDoubleClickHandler
SetDoubleClickHandler ==
    \E handler \in HandlerInputs :
        /\ doubleClickHandler' = handler
        /\ last' = Call("setDoubleClickHandler", handler, <<>>)
        /\ UNCHANGED <<tableVars, flagVars, delegateVars, viewVars>>

\* what indexAt(event->pos()) can return: an index of model(), the proxy,
\* for a position over a cell, and an invalid index elsewhere
IndexAtChoices ==
    { NoCurrent } \cup
    { [valid |-> TRUE, row |-> row, column |-> column] :
          row \in 0..(rowCount - 1), column \in 0..(columnCount - 1) }

\* TableWidget::mouseDoubleClickEvent for a click that indexAt resolves to
\* index: the calls made to the handler's target, and the exception the
\* call of an empty std::function throws, which leaves the event before
\* the base class implementation runs
mouseDoubleClickEvent(index) ==
    IF ~index.valid THEN [calls |-> <<>>, error |-> "none"]
    ELSE LET row == index.row
             column == index.column
             rowData == ItemTexts(tableModel, row)
         IN  IF doubleClickHandler = NoHandler
             THEN [calls |-> <<>>, error |-> "bad_function_call"]
             ELSE [calls |-> << [row |-> row, column |-> column, data |-> rowData] >>,
                   error |-> "none"]

MouseDoubleClickEvent ==
    \E index \in IndexAtChoices :
        /\ last' = Call("mouseDoubleClickEvent", index, mouseDoubleClickEvent(index))
        /\ UNCHANGED <<tableVars, flagVars, handlerVars, delegateVars, viewVars>>

NextView ==
    \/ SetDataInView
    \/ AppendRowInView
    \/ AppendRowsInView
    \/ DeleteRowInView
    \/ FilterTable
    \/ SelectCell
    \/ ClearSelection
    \/ EditCell
    \/ DeliverDataChanged
    \/ GetCurrentRow
    \/ GetSelectedRows

\* the context menu on a table that setData fills
NextMenu ==
    \/ SetDataInView
    \/ FilterTable
    \/ SelectCell
    \/ DeliverDataChanged
    \/ ContextMenuEvent
    \/ SetContextMenuEnabled
    \/ SetClipboard

\* a TableWidget whose second column is not editable
InitView ==
    /\ tableModel = EmptyModel
    /\ headers = <<>>
    /\ fieldNames = <<>>
    /\ verticalHeaders = <<>>
    /\ editableColumns = <<>>
    /\ disabledColumns = <<1>>
    /\ last = Call("TableWidget", <<>>, <<>>)
    /\ appended = <<>>
    /\ cell = QInvalid
    /\ editor = NoEditor
    /\ filter = NoFilter
    /\ current = NoCurrent
    /\ selected = {}
    /\ queue = <<>>
    /\ clipboard = <<>>
    /\ contextMenuEnabled = TRUE
    /\ doubleClickHandler = NoHandler

SpecView == InitView /\ [][NextView]_vars

\* filtering a table that is filled and emptied, with no selection
NextFilter ==
    \/ SetDataInView
    \/ AppendRowInView
    \/ DeleteRowInView
    \/ FilterTable
    \/ DeliverDataChanged

SpecMenu == InitView /\ [][NextMenu]_vars

SpecFilter == InitView /\ [][NextFilter]_vars

\* double clicks on a table that is filled and filtered, before and after
\* a handler is set
NextClick ==
    \/ SetDataInView
    \/ AppendRowInView
    \/ FilterTable
    \/ DeliverDataChanged
    \/ SetDoubleClickHandler
    \/ MouseDoubleClickEvent

SpecClick == InitView /\ [][NextClick]_vars

-----------------------------------------------------------------------------
(* Readers of the exported text, and the grid as the claims speak of it.   *)

\* the lines of a text, each ended by a line break; text after the last
\* line break is a last line
RECURSIVE LinesFrom(_, _, _)
LinesFrom(text, i, cur) ==
    IF i > Len(text) THEN (IF cur = <<>> THEN <<>> ELSE <<cur>>)
    ELSE IF text[i] = NL THEN <<cur>> \o LinesFrom(text, i + 1, <<>>)
    ELSE LinesFrom(text, i + 1, Append(cur, text[i]))

Lines(text) == LinesFrom(text, 1, <<>>)

\* the fields of a CSV line: commas separate fields except inside double
\* quotes, and the quotes are not part of the field
RECURSIVE FieldsFrom(_, _, _, _)
FieldsFrom(line, i, cur, inQuotes) ==
    IF i > Len(line) THEN <<cur>>
    ELSE IF line[i] = DQ THEN FieldsFrom(line, i + 1, cur, ~inQuotes)
    ELSE IF line[i] = COMMA /\ ~inQuotes THEN <<cur>> \o FieldsFrom(line, i + 1, <<>>, FALSE)
    ELSE FieldsFrom(line, i + 1, Append(cur, line[i]), inQuotes)

Fields(line) == FieldsFrom(line, 1, <<>>, FALSE)

\* the texts between <td> and </td> of an HTML text, in order
RECURSIVE TdTextsFrom(_, _, _, _)
TdTextsFrom(text, i, cur, inside) ==
    IF i > Len(text) THEN <<>>
    ELSE IF text[i] = "<td>" THEN TdTextsFrom(text, i + 1, <<>>, TRUE)
    ELSE IF text[i] = "</td>" THEN <<cur>> \o TdTextsFrom(text, i + 1, <<>>, FALSE)
    ELSE TdTextsFrom(text, i + 1, IF inside THEN Append(cur, text[i]) ELSE cur, inside)

\* how many elements of a text equal tag
CountOf(text, tag) == Cardinality({i \in 1..Len(text) : text[i] = tag})

\* the grid's rows, columns and header items, read off the state
GridRows == Len(tableModel.items)
GridColumns == tableModel.columnCount
GridText(r, c) == VariantToString(tableModel.items[r][c])
GridLabel(c) ==
    IF tableModel.hHeader[c] = QInvalid THEN NumberString(c) ELSE tableModel.hHeader[c].s

\* the three lengths agree: header list, field-name list, column count
LengthsAgree == Len(headers) = Len(fieldNames) /\ Len(fieldNames) = GridColumns

\* the key of column c (counted from 1) in an export
GridKey(c) == IF LengthsAgree THEN fieldNames[c] ELSE GridLabel(c)

Max(S) == CHOOSE x \in S : \A y \in S : y <= x

-----------------------------------------------------------------------------
(* The claims about the grid and its exports, under Spec. *)

\* C2: generateJsonData keys every column of every row object by
\* fieldNames[col] exactly when the header list, the field-name list and
\* the column count have the same length, and by the column's header label
\* in every other case, and never reads outside fieldNames.
C2_JsonKeys ==
    last.op = "generateJsonData" =>
        /\ last.arg[2] = FALSE
        /\ Len(last.ret) = GridRows
        /\ \A r \in 1..Len(last.ret) :
              DOMAIN last.ret[r] = {GridKey(c) : c \in 1..GridColumns}

\* C2 witness: an export of a grid with rows and two columns whose field
\* names are in use
C2_Witness ==
    /\ last.op = "generateJsonData"
    /\ LengthsAgree /\ GridColumns = 2 /\ GridRows >= 1
    /\ DOMAIN last.ret[1] = {F_f, F_g}

\* C3: when the field-name list's length differs from the header list's or
\* from the column count, the CSV output starts with a header line that
\* carries the header labels in column order, followed by the data rows.
C3_CsvFallbackHeaderLine ==
    (last.op = "generateCsvData" /\ ~LengthsAgree) =>
        /\ Len(Lines(last.ret)) = GridRows + 1
        /\ Fields(Lines(last.ret)[1])
              = (IF GridColumns = 0 THEN << <<>> >>
                 ELSE [c \in 1..GridColumns |-> GridLabel(c)])

\* C4 as stated: after setData(data) the column count is the length of
\* data's first row, and 0 for empty data.
C4_ColumnCountIsFirstRow ==
    last.op = "setData" =>
        GridColumns = (IF last.arg # <<>> THEN Len(last.arg[1]) ELSE 0)

\* C4 amended: after setData(data) the column count is the largest of the
\* number of header labels set with setHorizontalHeaders and the lengths
\* of data's rows.
C4_ColumnCountIsMax ==
    last.op = "setData" =>
        GridColumns = Max({Len(headers)} \cup {Len(last.arg[r]) : r \in 1..Len(last.arg)})

\* C4 witness: setData of rows shorter than the header list
C4_Witness ==
    /\ last.op = "setData" /\ last.arg # <<>>
    /\ Len(headers) > Len(last.arg[1])
    /\ GridColumns = Len(headers)

\* C5 as stated: after setData(data) the grid has exactly data.size() rows
\* and cell (r, c) holds data[r][c].
C5_RowsAreData ==
    last.op = "setData" =>
        /\ GridRows = Len(last.arg)
        /\ \A r \in 1..Len(last.arg) : \A c \in 1..Len(last.arg[r]) :
              tableModel.items[r][c] = QString(last.arg[r][c])

\* C5 amended: after setData(data) the grid has as many rows as the larger
\* of data.size() and the number of vertical header labels; cell (r, c)
\* holds data[r][c] for every c below the length of data[r], and every
\* other cell is empty, so nothing of the previous contents remains.
C5_RowsAreDataOrVertical ==
    last.op = "setData" =>
        /\ GridRows = Max({Len(last.arg), Len(verticalHeaders)})
        /\ \A r \in 1..GridRows : \A c \in 1..GridColumns :
              tableModel.items[r][c] =
                  (IF r <= Len(last.arg) /\ c <= Len(last.arg[r])
                   THEN QString(last.arg[r][c]) ELSE QInvalid)

\* C5 witness: setData of fewer rows than there are vertical header labels
C5_Witness ==
    /\ last.op = "setData" /\ last.arg # <<>>
    /\ Len(verticalHeaders) > Len(last.arg)
    /\ GridRows = Len(verticalHeaders)

\* C6: after any sequence of appendRow, appendRows and deleteRow on a grid
\* with a fixed column count, getAllTableData returns exactly the appended
\* rows that were not deleted, in the order in which they were appended.
C6_InsertionOrder ==
    /\ getAllTableData(tableModel) = appended
    /\ last.op = "getAllTableData" => last.ret = appended

\* C6 witness: row 0 of two rows was deleted and the later row is left
C6_Witness ==
    /\ last.op = "deleteRow" /\ last.arg = 0
    /\ Len(appended) = 1 /\ GridColumns = 2
    /\ appended[1] = <<QString(T_7), QString(T_comma)>>
    /\ getAllTableData(tableModel) = appended

\* the texts of grid row r (counted from 1), in column order
GridTexts(r) == [c \in 1..GridColumns |-> GridText(r, c)]

\* the fields a CSV reader finds in the line of a row with these values
RecordOf(values) == IF values = <<>> THEN << <<>> >> ELSE values

\* how many lines of the CSV text come before the data rows
HeaderLines == IF LengthsAgree THEN 1 ELSE 0

\* the CSV export shows the grid: one record per grid row, in row order,
\* with the row's cell values
CsvShowsGrid ==
    last.op = "generateCsvData" =>
        /\ Len(Lines(last.ret)) = GridRows + HeaderLines
        /\ \A r \in 1..GridRows :
              Fields(Lines(last.ret)[r + HeaderLines]) = RecordOf(GridTexts(r))

\* the value the JSON export is to hold for cell (r, c), counted from 1
JsonExpected(converter, r, c) ==
    IF converter = "nullptr" THEN FromVariant(tableModel.items[r][c])
    ELSE FromVariant(valueConverter(c - 1, GridText(r, c)))

\* the JSON export shows the grid: one object per grid row, in row order,
\* each of whose values is the value of a cell of that row
JsonShowsGrid ==
    last.op = "generateJsonData" =>
        /\ Len(last.ret) = GridRows
        /\ \A r \in 1..GridRows : \A k \in DOMAIN last.ret[r] :
              \E c \in 1..GridColumns :
                  /\ GridKey(c) = k
                  /\ last.ret[r][k] = JsonExpected(last.arg[1], r, c)

\* the HTML export shows the grid: one <tr> per grid row after the header
\* row, and the cells' texts in row order
HtmlShowsGrid ==
    last.op = "generateHtmlTable" =>
        /\ CountOf(last.ret, "<tr>") = GridRows
        /\ TdTextsFrom(last.ret, 1, <<>>, FALSE)
              = [i \in 1..(GridRows * GridColumns) |->
                    GridText(((i - 1) \div GridColumns) + 1, ((i - 1) % GridColumns) + 1)]

\* C7: after any sequence of setData, appendRow, appendRows, deleteRow and
\* clearTable, each of generateCsvData, generateJsonData and
\* generateHtmlTable outputs exactly one data record per current grid row,
\* in grid row order, whose values are the current cell values of the row.
C7_ExportsShowGrid == CsvShowsGrid /\ JsonShowsGrid /\ HtmlShowsGrid

\* texts joined by single commas
RECURSIVE JoinComma(_)
JoinComma(texts) ==
    IF texts = <<>> THEN <<>>
    ELSE IF Len(texts) = 1 THEN texts[1]
    ELSE texts[1] \o <<COMMA>> \o JoinComma(Tail(texts))

\* a text in double quotes
Quoted(text) == <<DQ>> \o text \o <<DQ>>

\* C8: generateCsvData produces, after the optional header line of
\* double-quoted field names, exactly one newline-terminated line per row
\* in row order, each holding columnCount fields separated by single commas,
\* a field being quoted exactly if its value holds a comma: R lines for R
\* rows, plus one when field names are in use.
C8_CsvLines ==
    last.op = "generateCsvData" =>
        /\ last.ret = <<>> \/ last.ret[Len(last.ret)] = NL
        /\ Len(Lines(last.ret)) = GridRows + HeaderLines
        /\ HeaderLines = 1 =>
              Lines(last.ret)[1] = JoinComma([c \in 1..GridColumns |-> Quoted(fieldNames[c])])
        /\ \A r \in 1..GridRows :
              Lines(last.ret)[r + HeaderLines] =
                  JoinComma([c \in 1..GridColumns |->
                      IF Contains(GridText(r, c), COMMA) THEN Quoted(GridText(r, c))
                      ELSE GridText(r, c)])

\* the last column (counted from 1) that has the same key as column c
LastWithKey(c) == Max({d \in 1..GridColumns : GridKey(d) = GridKey(c)})

\* C10 as stated: generateJsonData(converter) stores, for every row and
\* every column, converter(col, text of the cell) under the column's key,
\* and the cell's own value when there is no converter.
C10_EveryColumnStored ==
    last.op = "generateJsonData" =>
        \A r \in 1..GridRows : \A c \in 1..GridColumns :
            /\ GridKey(c) \in DOMAIN last.ret[r]
            /\ last.ret[r][GridKey(c)] = JsonExpected(last.arg[1], r, c)

\* C10 amended: under every column's key the row object holds
\* converter(col, text of the cell), or the cell's own value when there is
\* no converter, where col is the last column that has this key (so the
\* column itself unless a later column has the same key); and the export
\* changes neither the grid nor the headers nor the field names.
C10_LastColumnStored ==
    /\ [](last.op = "generateJsonData" =>
            \A r \in 1..GridRows : \A c \in 1..GridColumns :
                /\ GridKey(c) \in DOMAIN last.ret[r]
                /\ last.ret[r][GridKey(c)] = JsonExpected(last.arg[1], r, LastWithKey(c)))
    /\ [][last'.op = "generateJsonData" =>
            UNCHANGED <<tableModel, headers, fieldNames>>]_vars

\* C10 witness: an export through valueConverter of a row whose two
\* columns have the same key: the second column's value is kept
C10_Witness ==
    /\ last.op = "generateJsonData" /\ last.arg[1] = "valueConverter"
    /\ GridColumns = 2 /\ GridRows >= 1 /\ GridKey(1) = GridKey(2)
    /\ tableModel.items[1] = <<QString(T_7), QString(T_comma)>>
    /\ last.ret[1][GridKey(1)] = [j |-> "string", s |-> T_comma, n |-> 0]

-----------------------------------------------------------------------------
(* The claim about the flags, under SpecFlags. *)

\* C1: for a valid index, flags is {selectable, editable, enabled} when
\* the column is in the editable list, {selectable, enabled} when it is in
\* the disabled list and not in the editable list, and the toolkit's
\* default otherwise; the result depends on the column alone; and an
\* invalid index gets no flags.
C1_FlagsByColumn ==
    last.op = "flags" =>
        LET inEditable == \E i \in 1..Len(editableColumns) :
                              editableColumns[i] = last.arg.column
            inDisabled == \E i \in 1..Len(disabledColumns) :
                              disabledColumns[i] = last.arg.column
        IN  /\ ~last.arg.valid => last.ret = {}
            /\ last.arg.valid =>
                  /\ inEditable =>
                        last.ret = {"ItemIsSelectable", "ItemIsEditable", "ItemIsEnabled"}
                  /\ (inDisabled /\ ~inEditable) =>
                        last.ret = {"ItemIsSelectable", "ItemIsEnabled"}
                  /\ (~inDisabled /\ ~inEditable) => last.ret = DefaultItemFlags
                  /\ \A row \in 0..(GridRows - 1) :
                        flags(Index(tableModel, row, last.arg.column)) = last.ret

\* C1 witness: the flags of a cell of the second row whose column is listed
\* as editable and as disabled
C1_Witness ==
    /\ last.op = "flags" /\ last.arg.valid /\ last.arg.row = 1
    /\ ListContains(editableColumns, last.arg.column)
    /\ ListContains(disabledColumns, last.arg.column)
    /\ "ItemIsEditable" \in last.ret

-----------------------------------------------------------------------------
(* The claim about the delegates, under SpecDelegates. *)

\* C9: for every delegate and every cell value, loading the cell into the
\* editor with setEditorData and committing at once with setModelData
\* leaves the cell's value unchanged: the cell reads the same text as
\* before.
C9_LoadCommitIdentity ==
    last.op = "setModelData" => VariantToString(last.ret) = VariantToString(last.arg[2])

-----------------------------------------------------------------------------
(* The claims about deleteRow, appendRow and the reads of fieldNames,      *)
(* under Spec.                                                             *)

\* C16: deleteRow(row) with row < 0 or row >= the grid's row count leaves
\* the grid unchanged and reports nothing; with a valid row it removes
\* exactly that row: the row count decreases by one, the rows before it
\* stay, the rows after it move up by one, and the columns stay.
C16_DeleteRowRemovesThatRow ==
    [][last'.op = "deleteRow" =>
        LET row == last'.arg
            n == RowCount(tableModel)
        IN  /\ last'.ret = <<>>
            /\ IF row < 0 \/ row >= n THEN tableModel' = tableModel
               ELSE /\ RowCount(tableModel') = n - 1
                    /\ ColumnCount(tableModel') = ColumnCount(tableModel)
                    /\ tableModel'.hHeader = tableModel.hHeader
                    /\ \A r \in 0..(n - 2) :
                           tableModel'.items[r + 1] =
                               tableModel.items[IF r < row THEN r + 1 ELSE r + 2]]_vars

\* the first row was removed from a grid of two rows
C16_Witness ==
    /\ last.op = "deleteRow"
    /\ last.arg = 0
    /\ RowCount(tableModel) = 1
    /\ ColumnCount(tableModel) >= 1

\* C17: appendRow(rowData) increases the row count by one, places the new
\* row last and leaves the earlier rows and the column count unchanged;
\* cell c of the new row holds rowData[c] for c below the column count and
\* the length of rowData, the empty string beyond rowData's length, and
\* the items of rowData beyond the column count are dropped.
C17_AppendRowAddsLastRow ==
    [][last'.op = "appendRow" =>
        LET rowData == last'.arg
            n == RowCount(tableModel)
            columns == ColumnCount(tableModel)
        IN  /\ RowCount(tableModel') = n + 1
            /\ ColumnCount(tableModel') = columns
            /\ \A r \in 1..n : tableModel'.items[r] = tableModel.items[r]
            /\ Len(tableModel'.items[n + 1]) = columns
            /\ \A c \in 1..columns :
                   tableModel'.items[n + 1][c] =
                       QString(IF c <= Len(rowData) THEN rowData[c] ELSE <<>>)]_vars

\* a row shorter than the column count was appended below another row
C17_Witness ==
    /\ last.op = "appendRow"
    /\ Len(last.arg) = 1
    /\ ColumnCount(tableModel) = 2
    /\ RowCount(tableModel) = 2
    /\ Data(tableModel, 1, 1) = QString(<<>>)

\* C19: generateCsvData and generateJsonData never read fieldNames at an
\* index outside the list, in any state the grid operations lead to.
C19_FieldNamesReadInRange ==
    /\ last.op = "generateCsvData" => last.arg = FALSE
    /\ last.op = "generateJsonData" => last.arg[2] = FALSE

\* an export that read a field name for each of two columns
C19_Witness ==
    /\ last.op = "generateCsvData"
    /\ useFields
    /\ columnCount = 2
    /\ RowCount(tableModel) >= 1

-----------------------------------------------------------------------------
(* The claims about the view, under SpecView and SpecFilter.               *)

\* the texts of the cells the view displays in its row p, in column order
DisplayedRow(p) ==
    [c \in 1..columnCount |-> VariantToString(ProxyData(tableModel, filter, p, c - 1))]

C12_RowUpdatedCarriesChangedRow ==
    (last.op = "handleDataChanged" /\ last.ret # <<>>) =>
        /\ last.arg.src >= 0
        /\ last.ret[1].rowData = RowData(tableModel, last.arg.src)

\* C14: the row data that tableSelectionChanged, getCurrentRow and
\* getSelectedRows report for a row of the view are the cell texts of the
\* row displayed there, in column order, also while a filter hides rows.
C14_ReportedRowIsDisplayedRow ==
    /\ (last.op = "select" /\ last.ret # <<>>) =>
           last.ret[1].rowData = DisplayedRow(last.ret[1].row)
    /\ (last.op = "getCurrentRow" /\ last.arg.valid) =>
           last.ret = << DisplayedRow(last.arg.row) >>
    /\ last.op = "getSelectedRows" =>
           /\ Len(last.ret) = Len(last.arg)
           /\ \A i \in 1..Len(last.arg) : last.ret[i] = DisplayedRow(last.arg[i])

\* C15: no rowUpdated is emitted for a change delivered while no cell is
\* selected, nor for a change of more than one row, nor for a change made
\* by setData, appendRow or appendRows, whatever the selection.
C15_NoRowUpdatedOnPopulate ==
    (last.op = "handleDataChanged" /\ last.ret # <<>>) =>
        /\ selected # {}
        /\ last.arg.topLeft.row = last.arg.bottomRight.row
        /\ last.arg.cause \notin { "setData", "appendRow", "appendRows" }

\* C20: after filterTable with an empty query every row of the grid is
\* shown: rowCount() is the grid's row count.
C20_EmptyQueryShowsAll ==
    (last.op = "filterTable" /\ last.arg = <<>>) => rowCount = RowCount(tableModel)

-----------------------------------------------------------------------------
(* The claims about the context menu, under SpecMenu.                      *)

\* C13: the Remove action deletes the row that is current in the view,
\* which is the grid row the current index stays on, and no other row;
\* with no current row or with the context menu disabled the grid is
\* unchanged.
C13_RemoveDeletesCurrentRow ==
    [][(last'.op = "contextMenuEvent" /\ last'.arg.selectedItem = "Remove") =>
        tableModel' = IF contextMenuEnabled /\ currentIndex.valid
                      THEN RemoveRow(tableModel, current.row)
                      ELSE tableModel]_vars

\* the grid after Paste, as the claim has it
Pasted(m, text) ==
    IF text # <<>> /\ Len(Split(text, TAB)) = ColumnCount(m)
    THEN [m EXCEPT !.items = Append(@, [c \in 1..ColumnCount(m) |->
                                           QString(Split(text, TAB)[c])])]
    ELSE m

\* C18: Paste appends one row whose cells are the tab-separated items of
\* the clipboard text when their number is the column count, and leaves
\* the grid unchanged for an empty text or another number of items; and
\* after Copy on a current row with no tab in its cells, Paste appends a
\* row equal to the row displayed as current.
C18_PasteAppendsClipboard ==
    /\ [][(last'.op = "contextMenuEvent" /\ last'.arg.selectedItem = "Paste"
             /\ contextMenuEnabled) =>
            tableModel' = Pasted(tableModel, clipboard)]_vars
    /\ []((/\ last.op = "contextMenuEvent" /\ last.arg.selectedItem = "Copy"
           /\ last.arg.enabled /\ currentIndex.valid
           /\ \A c \in 1..columnCount :
                  ~Contains(DisplayedRow(currentIndex.row)[c], TAB)) =>
              Pasted(tableModel, clipboard) =
                  [tableModel EXCEPT !.items =
                      Append(@, [c \in 1..columnCount |->
                                    QString(DisplayedRow(currentIndex.row)[c])])])

-----------------------------------------------------------------------------
(* The claim about clearTable, under Spec.                                 *)

\* C21: clearTable removes every row and column of the grid and leaves
\* the stored header labels and field names as they were, so that after a
\* setData that follows it the columns show the stored header labels and
\* the exports use the stored field names, when the lengths agree, as
\* they did before the clear.
C21_ClearKeepsHeaders ==
    [][/\ last'.op = "clearTable" =>
              /\ RowCount(tableModel') = 0
              /\ ColumnCount(tableModel') = 0
              /\ rowCount' = 0
              /\ columnCount' = 0
              /\ headers' = headers
              /\ fieldNames' = fieldNames
       /\ (last.op = "clearTable" /\ last'.op = "setData") =>
              /\ headers' = headers
              /\ fieldNames' = fieldNames
              /\ columnCount' >= Len(headers)
              /\ \A c \in 1..Len(headers) : HeaderLabel(c - 1)' = headers[c]
              /\ useFields' = (Len(headers) = Len(fieldNames)
                                  /\ Len(fieldNames) = ColumnCount(tableModel'))
              /\ useFields' =>
                     \A c \in 1..Len(fieldNames) :
                         JsonColumnName(useFields, c - 1)' = fieldNames[c]]_vars

\* clearTable has just emptied a table whose stored header labels and
\* field names agree in length
C21_Witness ==
    /\ last.op = "clearTable"
    /\ headers # <<>>
    /\ Len(fieldNames) = Len(headers)
    /\ ColumnCount(tableModel) = 0
    /\ appended = <<>>

-----------------------------------------------------------------------------
(* The claim about the double click, under SpecClick.                      *)

\* C22: a double click on a valid cell never invokes an unset handler:
\* the event completes without error whether or not setDoubleClickHandler
\* has been called, and a handler that is set is called exactly once,
\* with the clicked row, the clicked column and the texts of the cells of
\* that row as the view displays it.
C22_DoubleClickCallsSetHandler ==
    (last.op = "mouseDoubleClickEvent" /\ last.arg.valid) =>
        /\ last.ret.error = "none"
        /\ doubleClickHandler = NoHandler => last.ret.calls = <<>>
        /\ doubleClickHandler # NoHandler =>
               last.ret.calls = << [row |-> last.arg.row,
                                    column |-> last.arg.column,
                                    data |-> DisplayedRow(last.arg.row)] >>

====
